---- MODULE Spec2Model ----
(***************************************************************************)
(* A model of fastq_inspector.py: the FASTQ record parser, the chunker,    *)
(* the per-chunk reducer, the aggregator and run_analysis, which maps the  *)
(* reducer over the chunks on a multiprocessing pool.                      *)
(*                                                                         *)
(* Text is a sequence of one-character strings.  A line of the file is the *)
(* text readline() returns for it, line terminator included.  Numbers the  *)
(* program averages are exact rationals <<numerator, denominator>> in      *)
(* lowest terms: statistics.mean sums its data exactly, so the order of    *)
(* the data never changes its result.  The rounding of a single float      *)
(* operation is not modelled.                                              *)
(***************************************************************************)
EXTENDS Integers, Sequences, FiniteSets, TLC

\* ------------------------------------------------------------------ bounds

\* Most 4-line groups in a generated file.
MaxReads == 3
\* Longest sequence string of the single-record files.
MaxSeqLen == 3
\* Largest chunk size a run is configured with (0 is the non-positive one).
MaxChunkSize == 3
\* Largest worker count a run is configured with (0 is the non-positive one).
MaxWorkers == 2

\* ------------------------------------------------------------- arithmetic

Abs(n) == IF n < 0 THEN -n ELSE n

RECURSIVE GCD(_, _)
GCD(a, b) == IF b = 0 THEN a ELSE GCD(b, a % b)

\* The rational n/d (d > 0) in lowest terms.
Rat(n, d) == LET g == GCD(Abs(n), d) IN <<n \div g, d \div g>>

RatAdd(a, b) == Rat(a[1] * b[2] + b[1] * a[2], a[2] * b[2])

RECURSIVE RatSum(_)
RatSum(xs) == IF xs = <<>> THEN <<0, 1>> ELSE RatAdd(xs[1], RatSum(Tail(xs)))

\* What stands for the StatisticsError mean() raises on empty data: no
\* rational has denominator 0.
StatisticsError == <<0, 0>>

\* statistics.mean: the exact sum of the data divided by their number.
mean(xs) ==
    IF xs = <<>> THEN StatisticsError
    ELSE LET s == RatSum(xs) IN Rat(s[1], s[2] * Len(xs))

RECURSIVE Concat(_)
Concat(ss) == IF ss = <<>> THEN <<>> ELSE ss[1] \o Concat(Tail(ss))

\* ------------------------------------------------------------------- text

NL == "\n"
Whitespace == {" ", NL}

RECURSIVE lstrip(_)
lstrip(s) == IF s # <<>> /\ s[1] \in Whitespace THEN lstrip(Tail(s)) ELSE s

RECURSIVE rstrip(_)
rstrip(s) ==
    IF s # <<>> /\ s[Len(s)] \in Whitespace
    THEN rstrip(SubSeq(s, 1, Len(s) - 1)) ELSE s

\* str.strip(): leading and trailing whitespace removed.
strip(s) == rstrip(lstrip(s))

\* f.readline() with p lines already consumed: the next line, or the empty
\* string at the end of the file.
readline(f, p) == IF p < Len(f) THEN f[p + 1] ELSE <<>>

\* ord(): the code points of the characters the inputs are made of.
ord(c) ==
    CASE c = NL  -> 10
      [] c = " " -> 32
      [] c = "!" -> 33
      [] c = "#" -> 35
      [] c = "+" -> 43
      [] c = "@" -> 64
      [] c = "A" -> 65
      [] c = "C" -> 67
      [] c = "G" -> 71
      [] c = "I" -> 73
      [] c = "c" -> 99
      [] c = "g" -> 103
      [] c = "t" -> 116

PhredOffset == 33

\* ----------------------------------------------------------- parse_fastq

\* The (seq, qual) pair of the 4-line group read with p lines consumed.
parse_fastq_read(f, p) == <<strip(readline(f, p + 1)), strip(readline(f, p + 3))>>

\* `if not qual: break`
parse_fastq_stops_seq(read) == read[1] = <<>>
parse_fastq_stops(read) == read[2] = <<>>

\* ------------------------------------------------------------ the reducer

gc_content_upper_only(seq) ==
    LET gc == Cardinality({i \in DOMAIN seq : seq[i] \in {"G", "C"}})
    IN  IF seq # <<>> THEN Rat(gc * 100, Len(seq)) ELSE <<0, 1>>
gc_content(seq) ==
    LET gc == Cardinality({i \in DOMAIN seq : seq[i] \in {"G", "C", "g", "c"}})
        frac == Rat(gc, Len(seq))
    IN  IF seq # <<>> THEN Rat(frac[1] * 100, frac[2]) ELSE <<0, 1>>

quality_scores(qual_str) ==
    [i \in DOMAIN qual_str |-> <<ord(qual_str[i]) - PhredOffset, 1>>]

\* The three per-read lists of a chunk.  A read whose quality string is empty
\* makes mean() raise: its entry is StatisticsError and the call has raised.
analyze_chunk(chunk) ==
    [gc_contents |-> [i \in DOMAIN chunk |-> gc_content(chunk[i][1])],
     qualities   |-> [i \in DOMAIN chunk |-> mean(quality_scores(chunk[i][2]))],
     lengths     |-> [i \in DOMAIN chunk |-> <<Len(chunk[i][1]), 1>>]]

analyze_chunk_raises(chunk) ==
    \E i \in DOMAIN chunk : mean(quality_scores(chunk[i][2])) = StatisticsError

\* --------------------------------------------------------- the aggregator

Summary(gc, qual, lens) ==
    [avg_gc |-> mean(gc), avg_quality |-> mean(qual), avg_length |-> mean(lens),
     total_reads |-> Len(gc)]

aggregate_stats_mean_of_means(results) ==
    Summary([i \in DOMAIN results |-> mean(results[i].gc_contents)],
            [i \in DOMAIN results |-> mean(results[i].qualities)],
            [i \in DOMAIN results |-> mean(results[i].lengths)])
aggregate_stats_keeps_last(results) ==
    IF results = <<>> THEN Summary(<<>>, <<>>, <<>>)
    ELSE LET r == results[Len(results)]
         IN  [Summary(r.gc_contents, r.qualities, r.lengths)
                 EXCEPT !.total_reads =
                     Len(Concat([i \in DOMAIN results |-> results[i].gc_contents]))]
aggregate_stats_zero_when_empty(results) ==
    LET all_gc == Concat([i \in DOMAIN results |-> results[i].gc_contents])
    IN  IF all_gc = <<>>
        THEN [avg_gc |-> <<0, 1>>, avg_quality |-> <<0, 1>>,
              avg_length |-> <<0, 1>>, total_reads |-> 0]
        ELSE Summary(all_gc,
                     Concat([i \in DOMAIN results |-> results[i].qualities]),
                     Concat([i \in DOMAIN results |-> results[i].lengths]))
aggregate_stats(results) ==
    LET all_gc   == Concat([i \in DOMAIN results |-> results[i].gc_contents])
        all_qual == Concat([i \in DOMAIN results |-> results[i].qualities])
        all_lens == Concat([i \in DOMAIN results |-> results[i].lengths])
    IN  Summary(all_gc, all_qual, all_lens)

\* aggregate_stats raises when one of its means does.
aggregate_stats_raises(stats) == stats.avg_gc = StatisticsError

\* ------------------------------------------------------ chunked_iterator

\* `if len(chunk) == chunk_size: yield chunk`
chunked_iterator_full(chunk, chunk_size) == Len(chunk) = chunk_size

\* `if chunk: yield chunk` once the iterable is exhausted.
chunked_iterator_rest_dropped(chunk) == <<>>
chunked_iterator_rest(chunk) == IF chunk # <<>> THEN <<chunk>> ELSE <<>>

\* ----------------------------------------------------------------- inputs

Line(s) == s \o <<NL>>
Header == Line(<<"@">>)
Plus == Line(<<"+">>)

\* The four lines of one record.
Record(seq, qual) == <<Header, Line(seq), Plus, Line(qual)>>

ReadA == Record(<<"G", "c">>, <<"I", "I">>)
ReadB == Record(<<"A", "t", "g">>, <<"!", "#", "!">>)
\* A record whose quality line holds only whitespace.
BlankQuality == Record(<<"G">>, <<" ">>)

Groups == {ReadA, ReadB, BlankQuality}

RECURSIVE GroupSeqs(_)
GroupSeqs(n) ==
    IF n = 0 THEN {<<>>}
    ELSE GroupSeqs(n - 1)
         \cup {g \o f : g \in Groups, f \in {h \in GroupSeqs(n - 1) : Len(h) = 4 * (n - 1)}}

\* A file cut off after 0 to 3 lines of its last record.
Truncations == {SubSeq(ReadA, 1, k) : k \in 0..3}

Bases == {"G", "C", "g", "c", "A"}

RECURSIVE Strings(_)
Strings(n) ==
    IF n = 0 THEN {<<>>}
    ELSE Strings(n - 1)
         \cup {<<b>> \o s : b \in Bases, s \in {t \in Strings(n - 1) : Len(t) = n - 1}}

\* Files of up to MaxReads groups and a truncated tail, and one-record files
\* over every sequence string of up to MaxSeqLen bases, whose last line has
\* no line terminator.
Files ==
    {f \o t : f \in GroupSeqs(MaxReads), t \in Truncations}
    \cup {<<Header, Line(s), Plus, <<"I", "#">>>> : s \in Strings(MaxSeqLen)}

ChunkSizes == 0..MaxChunkSize
WorkerCounts == 0..MaxWorkers

\* ------------------------------------------------------------------ state

VARIABLES
    file,         \* the lines of the input file
    chunk_size,   \* run_analysis's chunk_size
    workers,      \* run_analysis's workers
    pc,           \* where run_analysis is
    handle,       \* parse_fastq's file handle: unopened, open, closed
    pos,          \* lines of the file consumed
    yielded,      \* the reads parse_fastq has yielded, in order
    chunk,        \* chunked_iterator's chunk under construction
    chunks,       \* the chunks chunked_iterator has yielded, as pool.map lists them
    status,       \* per chunk: queued, running, done, failed
    invocations,  \* per chunk: the analyze_chunk calls made on it
    results,      \* per chunk: its summary, once computed
    order,        \* the chunks in the order their calls completed
    error,        \* the exception that ends the run, if any
    report        \* <<the summary run_analysis returns>>, or <<>>

vars == <<file, chunk_size, workers, pc, handle, pos, yielded, chunk, chunks,
          status, invocations, results, order, error, report>>

config == <<file, chunk_size, workers>>

NoError == "none"

\* The entry of results for a chunk whose call has not returned.
Pending == [gc_contents |-> <<>>, qualities |-> <<>>, lengths |-> <<>>]

Init ==
    /\ file \in Files
    /\ chunk_size \in ChunkSizes
    /\ workers \in WorkerCounts
    /\ pc = "start"
    /\ handle = "unopened"
    /\ pos = 0
    /\ yielded = <<>>
    /\ chunk = <<>>
    /\ chunks = <<>>
    /\ status = <<>>
    /\ invocations = <<>>
    /\ results = <<>>
    /\ order = <<>>
    /\ error = NoError
    /\ report = <<>>

\* ---------------------------------------------------------------- actions

\* mp.Pool(processes=workers) raises ValueError for fewer than one process.
\* The generators of line 80 have read nothing yet.
PoolRejects(w) == w < 1

CreatePool ==
    /\ pc = "start"
    /\ IF PoolRejects(workers)
       THEN pc' = "failed" /\ error' = "ValueError"
       ELSE pc' = "drain" /\ error' = error
    /\ UNCHANGED <<config, handle, pos, yielded, chunk, chunks, status,
                   invocations, results, order, report>>

\* pool.map lists its iterable before it dispatches anything: one step of
\* that listing pulls one read through chunked_iterator from parse_fastq.
NextRead ==
    /\ pc = "drain"
    /\ LET read == parse_fastq_read(file, pos)
           c    == Append(chunk, read)
       IN  /\ ~parse_fastq_stops(read)
           /\ yielded' = Append(yielded, read)
           /\ IF chunked_iterator_full(c, chunk_size)
              THEN chunks' = Append(chunks, c) /\ chunk' = <<>>
              ELSE chunks' = chunks /\ chunk' = c
    /\ handle' = "open"
    /\ pos' = IF pos + 4 < Len(file) THEN pos + 4 ELSE Len(file)
    /\ UNCHANGED <<config, pc, status, invocations, results, order, error, report>>

\* parse_fastq breaks and closes the file, chunked_iterator yields what is
\* left, and pool.map queues one task per listed chunk.
EndOfReads ==
    /\ pc = "drain"
    /\ parse_fastq_stops(parse_fastq_read(file, pos))
    /\ handle' = "closed"
    /\ pos' = IF pos + 4 < Len(file) THEN pos + 4 ELSE Len(file)
    /\ chunks' = chunks \o chunked_iterator_rest(chunk)
    /\ chunk' = <<>>
    /\ status' = [i \in DOMAIN chunks' |-> "queued"]
    /\ invocations' = [i \in DOMAIN chunks' |-> 0]
    /\ results' = [i \in DOMAIN chunks' |-> Pending]
    /\ pc' = "map"
    /\ UNCHANGED <<config, yielded, order, error, report>>

Running == {i \in DOMAIN status : status[i] = "running"}

\* An idle worker takes a queued chunk and calls analyze_chunk on it.
StartTask(i) ==
    /\ pc = "map"
    /\ status[i] = "queued"
    /\ Cardinality(Running) < workers
    /\ status' = [status EXCEPT ![i] = "running"]
    /\ invocations' = [invocations EXCEPT ![i] = @ + 1]
    /\ UNCHANGED <<config, pc, handle, pos, yielded, chunk, chunks, results,
                   order, error, report>>

\* The call returns its summary, or raises on its data.
FinishTask(i) ==
    /\ pc = "map"
    /\ status[i] = "running"
    /\ LET raises == analyze_chunk_raises(chunks[i])
       IN  /\ status' = [status EXCEPT ![i] = IF raises THEN "failed" ELSE "done"]
           /\ results' = IF raises THEN results
                         ELSE [results EXCEPT ![i] = analyze_chunk(chunks[i])]
           /\ order' = IF raises THEN order ELSE Append(order, i)
           /\ error' = IF raises /\ error = NoError THEN "StatisticsError" ELSE error
    /\ UNCHANGED <<config, pc, handle, pos, yielded, chunk, chunks, invocations,
                   report>>

\* The call raises for a reason outside its data (MemoryError, say).  The pool
\* keeps the first exception and lets the other tasks finish.
FailTask(i) ==
    /\ pc = "map"
    /\ status[i] = "running"
    /\ status' = [status EXCEPT ![i] = "failed"]
    /\ error' = IF error = NoError THEN "WorkerError" ELSE error
    /\ UNCHANGED <<config, pc, handle, pos, yielded, chunk, chunks, invocations,
                   results, order, report>>

\* pool.map returns once every task has ended.
map_returns_on_first(st) == st = <<>> \/ \E i \in DOMAIN st : st[i] \in {"done", "failed"}
map_returns(st) == \A i \in DOMAIN st : st[i] \in {"done", "failed"}

\* run_analysis has no handler around pool.map: a kept exception leaves it.
map_raises_swallowed(err) == FALSE
map_raises(err) == err # NoError

MapReturn ==
    /\ pc = "map"
    /\ map_returns(status)
    /\ pc' = IF map_raises(error) THEN "failed" ELSE "aggregate"
    /\ UNCHANGED <<config, handle, pos, yielded, chunk, chunks, status,
                   invocations, results, order, error, report>>

\* `return aggregate_stats(results)` over the summaries of the calls that
\* returned, in chunk order.
Returned == SelectSeq([i \in DOMAIN results |-> <<i>>], LAMBDA x : status[x[1]] = "done")
ReturnedResults == [k \in DOMAIN Returned |-> results[Returned[k][1]]]

Aggregate ==
    /\ pc = "aggregate"
    /\ LET stats == aggregate_stats(ReturnedResults)
       IN  IF aggregate_stats_raises(stats)
           THEN pc' = "failed" /\ error' = "StatisticsError" /\ report' = report
           ELSE pc' = "done" /\ error' = error /\ report' = <<stats>>
    /\ UNCHANGED <<config, handle, pos, yielded, chunk, chunks, status,
                   invocations, results, order>>

Next ==
    \/ CreatePool
    \/ NextRead
    \/ EndOfReads
    \/ \E i \in DOMAIN status : StartTask(i)
    \/ \E i \in DOMAIN status : FinishTask(i)
    \/ \E i \in DOMAIN status : FailTask(i)
    \/ MapReturn
    \/ Aggregate

Spec == Init /\ [][Next]_vars

\* ------------------------------------------------- what the claims refer to

\* Line j of the k-th 4-line group of f; empty past the end of the file.
GroupLine(f, k, j) ==
    LET p == 4 * (k - 1) + j IN IF p <= Len(f) THEN f[p] ELSE <<>>

\* The first group whose quality line is empty once stripped.
FirstEmptyQuality(f) ==
    CHOOSE k \in 1..(Len(f) \div 4 + 1) :
        /\ strip(GroupLine(f, k, 4)) = <<>>
        /\ \A j \in 1..(k - 1) : strip(GroupLine(f, j, 4)) # <<>>

\* The reads of the groups before it.
ExpectedReads(f) ==
    [k \in 1..(FirstEmptyQuality(f) - 1) |->
        <<strip(GroupLine(f, k, 2)), strip(GroupLine(f, k, 4))>>]

\* The count and the three means taken over the reads of the whole stream.
DirectSummary(reads) ==
    [total_reads |-> Len(reads),
     avg_gc      |-> mean([i \in DOMAIN reads |-> gc_content(reads[i][1])]),
     avg_quality |-> mean([i \in DOMAIN reads |-> mean(quality_scores(reads[i][2]))]),
     avg_length  |-> mean([i \in DOMAIN reads |-> <<Len(reads[i][1]), 1>>])]

RECURSIVE GCCount(_)
GCCount(seq) ==
    IF seq = <<>> THEN 0
    ELSE (IF seq[1] \in {"G", "C", "g", "c"} THEN 1 ELSE 0) + GCCount(Tail(seq))

Permuted(rs, p) == [k \in DOMAIN rs |-> rs[p[k]]]

\* Chunks listed by pool.map whose call has not ended.
Unreduced ==
    {i \in DOMAIN chunks : pc = "drain" \/ status[i] \in {"queued", "running"}}


\* ----------------------------------------------------------------- claims

\* C1: for every chunk size N >= 1 and worker count W >= 1, the summary
\* run_analysis returns is the count and the three means taken directly over
\* the per-read values of the whole stream (so it is the same for every N
\* and W, and never a mean of per-chunk means).
C1_ChunkInvariance ==
    (pc = "done" /\ chunk_size >= 1 /\ workers >= 1)
        => report = <<DirectSummary(ExpectedReads(file))>>

\* A finished run whose chunks differ in size, where the mean of the chunk
\* means is not the global mean.
C1_Witness ==
    /\ pc = "done"
    /\ Len(chunks) = 2
    /\ Len(chunks[1]) # Len(chunks[2])
    /\ aggregate_stats_mean_of_means(results) # report[1]

\* C2: the summary the aggregator computes from a non-empty collection of
\* chunk summaries is the same for every permutation of the collection; in
\* particular for the order in which the workers completed the chunks.
C2_OrderIndependence ==
    /\ ReturnedResults # <<>> =>
          \A p \in Permutations(DOMAIN ReturnedResults) :
              aggregate_stats(Permuted(ReturnedResults, p))
                  = aggregate_stats(ReturnedResults)
    /\ pc = "done" =>
          report = <<aggregate_stats([k \in DOMAIN order |-> results[order[k]]])>>

\* A finished run whose chunks have different summaries and were completed
\* out of order.
C2_Witness ==
    /\ pc = "done"
    /\ Len(order) >= 2
    /\ order[1] > order[2]
    /\ results[order[1]] # results[order[2]]

\* C3: no chunk is reduced twice, and when the aggregator is handed the
\* summaries the stream has been drained, every chunk of the whole read
\* sequence has been reduced by exactly one call that has completed, and
\* there is exactly one summary per chunk.
C3_EveryChunkOnce ==
    /\ \A i \in DOMAIN invocations : invocations[i] <= 1
    /\ pc \in {"aggregate", "done"} =>
          /\ handle = "closed"
          /\ chunk = <<>>
          /\ Concat(chunks) = ExpectedReads(file)
          /\ Len(ReturnedResults) = Len(chunks)
          /\ Len(order) = Len(chunks)
          /\ \A i \in DOMAIN chunks :
                /\ status[i] = "done"
                /\ invocations[i] = 1
                /\ results[i] = analyze_chunk(chunks[i])
                /\ \E k \in DOMAIN order : order[k] = i

\* The aggregator is reached with three chunks reduced by two workers.
C3_Witness ==
    /\ pc = "aggregate"
    /\ Len(chunks) = 3
    /\ workers = 2

\* C4: a stream with no complete record never yields a report: the run does
\* not finish normally, and it goes on until it has failed.
C4_EmptyInputFails ==
    ExpectedReads(file) = <<>> =>
        /\ report = <<>>
        /\ pc # "done"
        /\ pc # "failed" => ENABLED Next

\* A run on a stream whose first record has a blank quality line has failed
\* in the aggregator.
C4_Witness ==
    /\ Len(file) >= 4
    /\ ExpectedReads(file) = <<>>
    /\ pc = "failed"
    /\ error = "StatisticsError"

\* C5 as claimed: under a non-positive chunk size or worker count the stream
\* is never read and no report is produced.
C5_ConfigRejected ==
    (chunk_size < 1 \/ workers < 1) => (handle = "unopened" /\ report = <<>>)

\* C6: once a reducer call has failed, the aggregator is never invoked, no
\* report is produced, the failed chunk is not reduced again, and the run
\* goes on until it has failed with the exception: until then a call is
\* running (it ends), a queued chunk can start, or pool.map can return.
C6_WorkerFailureAborts ==
    \A i \in DOMAIN status :
        status[i] = "failed" =>
            /\ report = <<>>
            /\ pc \notin {"aggregate", "done"}
            /\ error # NoError
            /\ invocations[i] = 1
            /\ pc # "failed" =>
                  \/ Running # {}
                  \/ ENABLED (MapReturn \/ \E j \in DOMAIN status : StartTask(j))

\* A run that has failed with one chunk's call failed and another chunk's
\* summary already computed.
C6_Witness ==
    /\ pc = "failed"
    /\ \E i \in DOMAIN status : status[i] = "failed"
    /\ \E j \in DOMAIN status : status[j] = "done" /\ results[j] # Pending

\* C7: for chunk size N >= 1, the chunks emitted so far followed by the chunk
\* under construction are the reads consumed so far, in order; no emitted
\* chunk is empty or longer than N, every one but the last holds exactly N
\* reads, and once the reads are exhausted the chunks concatenate to the
\* whole read sequence (no reads, no chunks).
C7_Chunking ==
    chunk_size >= 1 =>
        /\ Concat(chunks) \o chunk = yielded
        /\ Len(chunk) < chunk_size
        /\ \A i \in DOMAIN chunks :
              /\ 1 <= Len(chunks[i])
              /\ Len(chunks[i]) <= chunk_size
              /\ i < Len(chunks) => Len(chunks[i]) = chunk_size
        /\ pc = "drain" => \A i \in DOMAIN chunks : Len(chunks[i]) = chunk_size
        /\ handle = "closed" =>
              /\ chunk = <<>>
              /\ Concat(chunks) = ExpectedReads(file)
              /\ ExpectedReads(file) = <<>> => chunks = <<>>

\* Three reads in chunks of two: a full chunk and a shorter last one.
C7_Witness ==
    /\ handle = "closed"
    /\ chunk_size = 2
    /\ Len(chunks) = 2
    /\ Len(chunks[1]) = 2
    /\ Len(chunks[2]) = 1

\* C8 as claimed: the chunks materialized and not yet reduced never outnumber
\* the workers.
C8_Backpressure == Cardinality(Unreduced) <= workers

\* C9: every GC percentage a reducer call has computed is
\* 100 * (number of G, C, g, c) / length, and 0 for the empty sequence.
C9_GcContent ==
    \A i \in DOMAIN status :
        status[i] = "done" =>
            \A j \in DOMAIN chunks[i] :
                LET seq == chunks[i][j][1]
                    v   == results[i].gc_contents[j]
                IN  /\ v[2] > 0
                    /\ seq = <<>> => v = <<0, 1>>
                    /\ seq # <<>> => v[1] * Len(seq) = 100 * GCCount(seq) * v[2]

\* The percentage of a sequence mixing lower- and upper-case G/C: 200/3.
C9_Witness ==
    \E i \in DOMAIN status :
        /\ status[i] = "done"
        /\ chunks[i][1][1] = <<"g", "C", "A">>
        /\ results[i].gc_contents[1] = <<200, 3>>

\* C10: the stream is consumed four lines at a time; the reads yielded are,
\* in order, those of the groups before the first group whose stripped
\* quality line is empty, all of them once the parser has ended; every
\* yielded read has a non-empty quality string; and the parser ends without
\* an error, whatever follows that group.
C10_ParseFastq ==
    /\ Len(yielded) <= Len(ExpectedReads(file))
    /\ \A k \in DOMAIN yielded :
          yielded[k] = ExpectedReads(file)[k] /\ yielded[k][2] # <<>>
    /\ handle = "open" =>
          pos = (IF 4 * Len(yielded) < Len(file) THEN 4 * Len(yielded) ELSE Len(file))
    /\ handle = "closed" =>
          /\ yielded = ExpectedReads(file)
          /\ pos = (IF 4 * (Len(yielded) + 1) < Len(file)
                    THEN 4 * (Len(yielded) + 1) ELSE Len(file))
    /\ pc = "drain" => (error = NoError /\ ENABLED (NextRead \/ EndOfReads))
    /\ pc = "map" /\ status = [i \in DOMAIN status |-> "queued"] => error = NoError

\* The parser has ended at a blank quality line with a complete record
\* after it, having yielded only the record before it.
C10_Witness ==
    /\ handle = "closed"
    /\ Len(yielded) = 1
    /\ Len(file) = 12
    /\ strip(file[8]) = <<>>
    /\ strip(file[12]) # <<>>

====
